---- MODULE Spec2Model ----
(***************************************************************************)
(* A model of the core of the Smart Waste Management backend               *)
(* (src/Backend/main.py): the alert evaluator (_calculate_bin_status,      *)
(* _generate_alerts), the sliding-window RateLimiter, the in-memory        *)
(* WasteDatabase, the SimpleJWT codec with the SecurityBearer dependency,  *)
(* the token issue (create_access_token, POST /auth/token), the            *)
(* NotificationManager, and the request path (rate-limit middleware,       *)
(* dependency, handler).                                                   *)
(*                                                                         *)
(* Time is counted in whole clock units: `now` stands for time.time().     *)
(* Fill levels are whole percents 0..100.                                  *)
(***************************************************************************)
EXTENDS Integers, Sequences, FiniteSets, Bags, TLC

VARIABLES
    now,        \* the wall clock read by time.time() / datetime.now()
    limit,      \* the `limit` argument of RateLimiter.is_allowed
    window,     \* the `window` argument of RateLimiter.is_allowed
    requests,   \* RateLimiter.requests: identifier -> sequence of timestamps
    allowLog,   \* ghost: the last is_allowed call (arguments, list before, result)
    admitted,   \* ghost: identifier -> the times of its allowed calls that lie
                \* less than `window` before the current clock
    denials,    \* ghost: identifier -> the denied calls counted since its last
                \* allowed call (pending) and those that preceded that call
                \* (before)
    reading,    \* the WasteBinData under evaluation (alert evaluator)
    evaluated,  \* what the evaluator returned for `reading`, or NotEvaluated
    bins,       \* WasteDatabase.bins: bin_id -> record
    stored,     \* ghost: the bin ids store_bin_data was ever called with
    latest,     \* ghost: bin_id -> the reading of the last store_bin_data call
    getLog,     \* ghost: the last GET /status/{bin_id} (bin_id, response)
    held,       \* what a caller of get_all_bins holds: the reference returned
                \* and, as a ghost, the contents it had when the call returned
    inflight,   \* the bag of HTTP requests being served, each with its position
    answered,   \* ghost: the request answered last, with its response
    utcoffset,  \* the server's local time zone: local time minus UTC
    access_token,  \* the token string a client holds
    issueLog,   \* ghost: the last token issued (arguments, clock, token)
    decodeLog   \* ghost: the last SimpleJWT.decode call (arguments, clock, result)

limiterVars == <<limit, window, requests, allowLog, admitted>>
evalVars == <<reading, evaluated>>
storeVars == <<bins, stored, latest, getLog, held>>
gateVars == <<inflight, answered>>
tokenVars == <<utcoffset, access_token, issueLog, decodeLog>>
vars == <<now, limiterVars, denials, evalVars, storeVars, gateVars, tokenVars>>

-----------------------------------------------------------------------------
(* Bounds of the model *)

MaxTime == 5          \* the clock runs 0..MaxTime
MaxLimit == 3         \* is_allowed is called with limit in 0..MaxLimit
MaxWindow == 3        \* is_allowed is called with window in 1..MaxWindow
MaxStoreTime == 2     \* the clock runs 0..MaxStoreTime while the store is exercised
MaxInFlight == 2      \* POST /data requests being served at once
MaxAuthInFlight == 1  \* requests to the protected routes being served at once
MaxGateTime == 2      \* the clock runs 0..MaxGateTime while requests are served
MaxGateLimit == 2     \* the middleware's limit is 1..MaxGateLimit
MaxGateWindow == 2    \* the middleware's window is 1..MaxGateWindow
TokenExp == 1         \* the expiration of the tokens presented
MaxDenials == 2       \* denied calls in a row are counted up to MaxDenials
MinutesPerTick == 30  \* the length of a clock unit where tokens are issued
MaxUtcOffset == 3     \* the server's zone is within MaxUtcOffset units of UTC
MaxTokenTime == 3     \* the clock runs 0..MaxTokenTime while tokens are issued
MaxDelta == 2         \* create_access_token is given -1..MaxDelta clock units

(* Program constants *)

MaxLevel == 100       \* Field(..., ge=0.0, le=100.0)
CRITICAL_LEVEL == 90  \* if max_level >= 90
HIGH_LEVEL == 80      \* elif max_level >= 80
MEDIUM_LEVEL == 60    \* elif max_level >= 60
ALERT_LEVEL == 80     \* if data.<category>_level >= 80
ACCESS_TOKEN_EXPIRE_MINUTES == 60
SHA256_DIGEST_BYTES == 32

Levels == 0..MaxLevel
Identifiers == {"ip1", "ip2"}
GateClients == {"ip1"}
None == "None"

-----------------------------------------------------------------------------
(* AlertEvaluator: WasteDatabase._calculate_bin_status, _generate_alerts *)

\* Python's max(a, b, c)
Max3(a, b, c) ==
    IF a >= b THEN (IF a >= c THEN a ELSE c)
              ELSE (IF b >= c THEN b ELSE c)

_calculate_bin_status_strict(data) ==
    LET max_level == Max3(data.organic_level, data.recyclable_level,
                          data.hazardous_level)
    IN  IF max_level > CRITICAL_LEVEL THEN "CRITICAL"
        ELSE IF max_level > HIGH_LEVEL THEN "HIGH"
        ELSE IF max_level > MEDIUM_LEVEL THEN "MEDIUM"
        ELSE "LOW"

_calculate_bin_status_gap(data) ==
    LET max_level == Max3(data.organic_level, data.recyclable_level,
                          data.hazardous_level)
    IN  IF max_level >= CRITICAL_LEVEL THEN "CRITICAL"
        ELSE IF max_level >= HIGH_LEVEL THEN "HIGH"
        ELSE IF max_level >= MEDIUM_LEVEL /\ max_level < MEDIUM_LEVEL + 10 THEN "MEDIUM"
        ELSE "LOW"

_calculate_bin_status(data) ==
    LET max_level == Max3(data.organic_level, data.recyclable_level,
                          data.hazardous_level)
    IN  IF max_level >= CRITICAL_LEVEL THEN "CRITICAL"
        ELSE IF max_level >= HIGH_LEVEL THEN "HIGH"
        ELSE IF max_level >= MEDIUM_LEVEL THEN "MEDIUM"
        ELSE "LOW"

\* f"<Category> waste level critical: {level}%"
AlertMessage(category, level) == [category |-> category, level |-> level]

_generate_alerts_strict(data) ==
    LET a1 == IF data.organic_level > ALERT_LEVEL
              THEN <<AlertMessage("Organic", data.organic_level)>> ELSE <<>>
        a2 == IF data.recyclable_level > ALERT_LEVEL
              THEN Append(a1, AlertMessage("Recyclable", data.recyclable_level))
              ELSE a1
    IN  IF data.hazardous_level > ALERT_LEVEL
        THEN Append(a2, AlertMessage("Hazardous", data.hazardous_level))
        ELSE a2

_generate_alerts(data) ==
    LET a1 == IF data.organic_level >= ALERT_LEVEL
              THEN <<AlertMessage("Organic", data.organic_level)>> ELSE <<>>
        a2 == IF data.recyclable_level >= ALERT_LEVEL
              THEN Append(a1, AlertMessage("Recyclable", data.recyclable_level))
              ELSE a1
    IN  IF data.hazardous_level >= ALERT_LEVEL
        THEN Append(a2, AlertMessage("Hazardous", data.hazardous_level))
        ELSE a2

NotEvaluated == [status |-> None, alerts |-> <<>>]

-----------------------------------------------------------------------------
(* RateLimiter.is_allowed *)

\* the list comprehension: keep req_time when now - req_time < window
Fresh(t, req_time, w) == t - req_time < w

Prune(reqs, t, w) == SelectSeq(reqs, LAMBDA req_time : Fresh(t, req_time, w))

UnderLimit_inclusive(n, lim) == n <= lim

\* if len(self.requests[identifier]) < limit
UnderLimit(n, lim) == n < lim

\* the list of `identifier` at entry: created empty when absent
Recorded(reqMap, identifier) ==
    IF identifier \in DOMAIN reqMap THEN reqMap[identifier] ELSE <<>>

is_allowed_records_denied(reqMap, identifier, lim, w, t) ==
    LET kept == Prune(Recorded(reqMap, identifier), t, w)
    IN  [requests |-> [i \in DOMAIN reqMap \cup {identifier} |->
                          IF i = identifier THEN Append(kept, t) ELSE reqMap[i]],
         allowed |-> UnderLimit(Len(kept), lim)]

is_allowed_prunes_all(reqMap, identifier, lim, w, t) ==
    LET kept == Prune(Recorded(reqMap, identifier), t, w)
        ok == UnderLimit(Len(kept), lim)
        new == IF ok THEN Append(kept, t) ELSE kept
    IN  [requests |-> [i \in DOMAIN reqMap \cup {identifier} |->
                          IF i = identifier THEN new ELSE Prune(reqMap[i], t, w)],
         allowed |-> ok]

is_allowed_unpruned(reqMap, identifier, lim, w, t) ==
    LET kept == Recorded(reqMap, identifier)
        ok == UnderLimit(Len(kept), lim)
        new == IF ok THEN Append(kept, t) ELSE kept
    IN  [requests |-> [i \in DOMAIN reqMap \cup {identifier} |->
                          IF i = identifier THEN new ELSE reqMap[i]],
         allowed |-> ok]

\* one call of is_allowed at clock t: the new map and the returned bool
is_allowed(reqMap, identifier, lim, w, t) ==
    LET kept == Prune(Recorded(reqMap, identifier), t, w)
        ok == UnderLimit(Len(kept), lim)
        new == IF ok THEN Append(kept, t) ELSE kept
    IN  [requests |-> [i \in DOMAIN reqMap \cup {identifier} |->
                          IF i = identifier THEN new ELSE reqMap[i]],
         allowed |-> ok]

NoCall == [identifier |-> None, at |-> 0, before |-> <<>>, allowed |-> FALSE]

-----------------------------------------------------------------------------
(* WasteDatabase *)

BinIds == {"BIN-001", "BIN-002"}

\* the readings the devices send in the store's specifications: one per
\* status band, three of them with a level at or above the alert threshold
SampleLevels ==
    { <<10, 20, 30>>, <<60, 79, 0>>, <<85, 10, 10>>, <<0, 80, 95>> }

WasteBinData(bin_id, levels) ==
    [bin_id |-> bin_id, organic_level |-> levels[1],
     recyclable_level |-> levels[2], hazardous_level |-> levels[3]]

SampleReadings == {WasteBinData(b, l) : b \in BinIds, l \in SampleLevels}

\* the readings posted concurrently: no level of the first reaches a
\* threshold, two levels of the second raise an alert
DataReadings == {WasteBinData(b, l) : b \in BinIds, l \in {<<10, 20, 30>>, <<0, 80, 95>>}}

\* the dict literal of store_bin_data
BinRecord(data, t, status, alerts) ==
    [bin_id |-> data.bin_id,
     organic_level |-> data.organic_level,
     recyclable_level |-> data.recyclable_level,
     hazardous_level |-> data.hazardous_level,
     last_updated |-> t,
     status |-> status,
     alerts |-> alerts]

\* self.bins[key] = record
SetItem(binsMap, key, record) ==
    [b \in DOMAIN binsMap \cup {key} |-> IF b = key THEN record ELSE binsMap[b]]

store_bin_data_keeps_status(binsMap, data, t) ==
    LET status == IF data.bin_id \in DOMAIN binsMap
                  THEN binsMap[data.bin_id].status
                  ELSE _calculate_bin_status(data)
    IN  [bins |-> SetItem(binsMap, data.bin_id,
                          BinRecord(data, t, status, _generate_alerts(data))),
         ok |-> TRUE]

store_bin_data_keeps_alerts(binsMap, data, t) ==
    LET alerts == IF data.bin_id \in DOMAIN binsMap
                  THEN binsMap[data.bin_id].alerts
                  ELSE _generate_alerts(data)
    IN  [bins |-> SetItem(binsMap, data.bin_id,
                          BinRecord(data, t, _calculate_bin_status(data), alerts)),
         ok |-> TRUE]

store_bin_data_replaces_map(binsMap, data, t) ==
    [bins |-> SetItem(<<>>, data.bin_id,
                      BinRecord(data, t, _calculate_bin_status(data),
                                _generate_alerts(data))),
     ok |-> TRUE]

store_bin_data_keeps_first(binsMap, data, t) ==
    [bins |-> IF data.bin_id \in DOMAIN binsMap THEN binsMap
              ELSE SetItem(binsMap, data.bin_id,
                           BinRecord(data, t, _calculate_bin_status(data),
                                     _generate_alerts(data))),
     ok |-> TRUE]

\* store_bin_data at clock t: the new map and the returned bool (nothing in
\* the try block raises for a validated reading)
store_bin_data(binsMap, data, t) ==
    LET timestamp == t
        status == _calculate_bin_status(data)
        alerts == _generate_alerts(data)
    IN  [bins |-> SetItem(binsMap, data.bin_id,
                          BinRecord(data, timestamp, status, alerts)),
         ok |-> TRUE]

\* an Optional[Dict]: <<>> stands for None, <<d>> for the dict d
Nothing == <<>>
Some(d) == <<d>>

\* self.bins.get(bin_id)
get_bin_status(binsMap, bin_id) ==
    IF bin_id \in DOMAIN binsMap THEN Some(binsMap[bin_id]) ELSE Nothing

NotFound == [status_code |-> 404, body |-> Nothing]

\* the route GET /status/{bin_id}: 404 when `not bin_status`, else
\* BinStatus(**bin_status)
get_bin_status_route(binsMap, bin_id) ==
    LET bin_status == get_bin_status(binsMap, bin_id)
    IN  IF bin_status = Nothing THEN NotFound
        ELSE [status_code |-> 200, body |-> bin_status]

\* get_all_bins returns self.bins itself: a reference to the live dict
BinsRef == "self.bins"

get_all_bins == BinsRef

\* what a holder of `ref` reads through it when the store's dict is binsMap
Deref(ref, binsMap) == IF ref = BinsRef THEN binsMap ELSE <<>>

NoGet == [bin_id |-> None, response |-> NotFound]
NotHeld == [ref |-> None, atCall |-> <<>>]

-----------------------------------------------------------------------------
(* NotificationManager.check_and_notify *)

NOTIFY_THRESHOLD == 80    \* threshold = 80.0

\* f"ALERT: Bin {bin_id} - <Category> waste level is {level}% (exceeds 80.0%)"
Notification(bin_id, category, level) ==
    [bin_id |-> bin_id, category |-> category, level |-> level]

check_and_notify_inclusive(data) ==
    LET n1 == IF data.organic_level >= NOTIFY_THRESHOLD
              THEN <<Notification(data.bin_id, "Organic", data.organic_level)>>
              ELSE <<>>
        n2 == IF data.recyclable_level >= NOTIFY_THRESHOLD
              THEN Append(n1, Notification(data.bin_id, "Recyclable",
                                           data.recyclable_level))
              ELSE n1
    IN  IF data.hazardous_level >= NOTIFY_THRESHOLD
        THEN Append(n2, Notification(data.bin_id, "Hazardous", data.hazardous_level))
        ELSE n2

check_and_notify(data) ==
    LET n1 == IF data.organic_level > NOTIFY_THRESHOLD
              THEN <<Notification(data.bin_id, "Organic", data.organic_level)>>
              ELSE <<>>
        n2 == IF data.recyclable_level > NOTIFY_THRESHOLD
              THEN Append(n1, Notification(data.bin_id, "Recyclable",
                                           data.recyclable_level))
              ELSE n1
    IN  IF data.hazardous_level > NOTIFY_THRESHOLD
        THEN Append(n2, Notification(data.bin_id, "Hazardous", data.hazardous_level))
        ELSE n2

-----------------------------------------------------------------------------
(* SimpleJWT.  A token string is the sequence of its '.'-separated segments; *)
(* a segment is the base64url text of a JSON object or of a digest, or text *)
(* that is neither.  HMAC-SHA256 is a keyed hash taken to have no collisions. *)
(* A character is its code point, a text given character by character the   *)
(* sequence of them.                                                        *)

SECRET_KEY == "your-super-secret-key-change-in-production"
OtherSecret == "some-other-secret"

JwtHeader == [alg |-> "HS256", typ |-> "JWT"]
JsonNull == "null"

\* base64.urlsafe_b64encode(json.dumps(obj).encode()).decode().rstrip('=')
B64Json(obj) == [b64json |-> obj]

\* base64.urlsafe_b64encode(digest).decode().rstrip('=')
B64(digest) == [b64 |-> digest]

\* hmac.new(secret.encode(), message.encode(), hashlib.sha256).digest()
Hmac(secret, message) == [key |-> secret, over |-> message]

\* f"{header_encoded}.{payload_encoded}"
Message(header_encoded, payload_encoded) == <<header_encoded, payload_encoded>>

\* a segment that is not the base64url text of a JSON object
RawSegment == [raw |-> <<37, 37, 37>>]

\* SimpleJWT.encode
encode(payload, secret) ==
    LET header_encoded == B64Json(JwtHeader)
        payload_encoded == B64Json(payload)
        message == Message(header_encoded, payload_encoded)
        signature_encoded == B64(Hmac(secret, message))
    IN  message \o <<signature_encoded>>

\* token.split('.'): the empty string splits into one empty part
Split(token) == IF token = <<>> THEN <<[raw |-> <<>>]>> ELSE token

\* str.isascii() of a segment: base64url text is; text given character by
\* character is when every code point is below 128; a segment with a character
\* changed, or cut before or after a position, is when what it was made of is
RECURSIVE IsAscii(_)
IsAscii(segment) ==
    IF "raw" \in DOMAIN segment
    THEN \A i \in DOMAIN segment.raw : segment.raw[i] < 128
    ELSE IF "changed" \in DOMAIN segment
    THEN segment.to < 128 /\ IsAscii(segment.changed)
    ELSE IF "cut" \in DOMAIN segment
    THEN IsAscii(segment.cut)
    ELSE TRUE

\* a call that returns `value`
Returned(value) == [ok |-> TRUE, value |-> value]

\* a call that raises TypeError(message)
TypeError(message) == [ok |-> FALSE, error |-> message]

\* hmac.compare_digest(a, b) of two str: whether they are equal, or the
\* TypeError it raises when either holds a character outside ASCII
compare_digest(a, b) ==
    IF ~IsAscii(a) \/ ~IsAscii(b)
    THEN TypeError("comparing strings with non-ASCII characters is not supported")
    ELSE Returned(a = b)

\* whether json.loads(base64.urlsafe_b64decode(segment + '==').decode()) returns
CanLoad(segment) == DOMAIN segment = {"b64json"}

Load(segment) == segment.b64json

\* raise ValueError(f"Token validation failed: {e}")
Failed(e) == [ok |-> FALSE, error |-> e]

decode_unverified(token, secret, t) ==
    LET parts == Split(token)
    IN  IF Len(parts) # 3 THEN Failed("Invalid token format")
        ELSE IF ~CanLoad(parts[2]) THEN Failed("payload does not decode")
        ELSE IF "exp" \in DOMAIN Load(parts[2]) /\ Load(parts[2]).exp < t
             THEN Failed("Token has expired")
        ELSE [ok |-> TRUE, payload |-> Load(parts[2])]

\* SimpleJWT.decode at clock t: the payload, or the ValueError raised
decode(token, secret, t) ==
    LET parts == Split(token)
    IN  IF Len(parts) # 3 THEN Failed("Invalid token format")
        ELSE
        LET header_encoded == parts[1]
            payload_encoded == parts[2]
            signature_encoded == parts[3]
            message == Message(header_encoded, payload_encoded)
            expected_signature_encoded == B64(Hmac(secret, message))
            compared == compare_digest(signature_encoded, expected_signature_encoded)
        IN  IF ~compared.ok THEN Failed(compared.error)
            ELSE IF ~compared.value THEN Failed("Invalid signature")
            ELSE IF ~CanLoad(payload_encoded) THEN Failed("payload does not decode")
            ELSE
            LET payload == Load(payload_encoded)
            IN  IF "exp" \in DOMAIN payload /\ payload.exp < t
                THEN Failed("Token has expired")
                ELSE [ok |-> TRUE, payload |-> payload]

\* the characters of the signature segment: the unpadded base64url text of
\* a SHA-256 digest, ceil(32 * 4 / 3)
SignatureChars == (SHA256_DIGEST_BYTES * 4 + 2) \div 3

\* the base64url alphabet, by the value of each character: A-Z, a-z, 0-9, - _
Base64UrlAlphabet ==
    [v \in 0..63 |-> IF v < 26 THEN 65 + v
                     ELSE IF v < 52 THEN 97 + (v - 26)
                     ELSE IF v < 62 THEN 48 + (v - 52)
                     ELSE IF v = 62 THEN 45 ELSE 95]

\* the bits of the last signature character that hold no bit of the digest
\* and are zero
PadBits == SignatureChars * 6 - SHA256_DIGEST_BYTES * 8

\* the characters the signature segment can hold at position `at`: any of the
\* alphabet, and at the last position those whose padding bits are zero
SignatureAlphabet(at) ==
    IF at = SignatureChars
    THEN {Base64UrlAlphabet[v] : v \in {w \in 0..63 : w % (2 ^ PadBits) = 0}}
    ELSE {Base64UrlAlphabet[v] : v \in 0..63}

\* '.'
Separator == 46

\* the text of `segment`, whose character at position `at` is `was`, with
\* that character set to `to`: the same text when `to` is the character it has
Changed(segment, at, was, to) ==
    IF to = was THEN segment ELSE [changed |-> segment, at |-> at, to |-> to]

\* the text of `segment` before position `at`, and after it
Before(segment, at) == [cut |-> segment, side |-> "before", at |-> at]
After(segment, at) == [cut |-> segment, side |-> "after", at |-> at]

\* a token string with the character at `at` of its third segment, `was`, set
\* to `to`: when the new character is the separator the string has a fourth
\* segment
TamperSignature(tok, at, was, to) ==
    IF to = was THEN tok
    ELSE IF to = Separator
    THEN <<tok[1], tok[2], Before(tok[3], at), After(tok[3], at)>>
    ELSE <<tok[1], tok[2], Changed(tok[3], at, was, to)>>

-----------------------------------------------------------------------------
(* create_access_token, create_token *)

\* timedelta(minutes=m) in clock units
timedelta(minutes) == minutes \div MinutesPerTick

\* datetime.utcnow() at clock t: a naive datetime showing the wall clock of UTC,
\* written as the clock units that wall clock has counted
utcnow(t) == t

\* naive.timestamp(): the naive datetime is read as local time, so the instant
\* returned is the one at which the local wall clock shows it
timestamp(naive, offset) == naive - offset

\* `if expires_delta:` is false for None and for timedelta(0)
Truthy(expires_delta) == expires_delta # Nothing /\ expires_delta[1] # 0

\* dict.update({key: value}) on a copy
Update(dict, key, value) ==
    [k \in DOMAIN dict \cup {key} |-> IF k = key THEN value ELSE dict[k]]

\* create_access_token at clock t on a server `offset` ahead of UTC
create_access_token(data, expires_delta, t, offset) ==
    LET expire == IF Truthy(expires_delta)
                  THEN utcnow(t) + expires_delta[1]
                  ELSE utcnow(t) + timedelta(ACCESS_TOKEN_EXPIRE_MINUTES)
        to_encode == Update(data, "exp", timestamp(expire, offset))
    IN  encode(to_encode, SECRET_KEY)

TestSubject == [sub |-> "test_user"]

\* the route function of POST /auth/token: the access_token it returns
create_token(t, offset) ==
    LET access_token_expires == Some(timedelta(ACCESS_TOKEN_EXPIRE_MINUTES))
    IN  create_access_token(TestSubject, access_token_expires, t, offset)

\* the empty string
NoToken == <<>>

NoIssue == [op |-> None, data |-> <<>>, expires_delta |-> Nothing,
            secret |-> None, at |-> 0, token |-> NoToken]

NoDecode == [token |-> NoToken, secret |-> None, at |-> 0, result |-> Failed(None)]

-----------------------------------------------------------------------------
(* SecurityBearer *)

\* payload.get("sub") is not None
HasSubject(payload) == "sub" \in DOMAIN payload /\ payload.sub # JsonNull

\* SecurityBearer.verify_jwt at clock t
verify_jwt(token, t) ==
    LET r == decode(token, SECRET_KEY, t)
    IN  r.ok /\ HasSubject(r.payload)

\* the Authorization header: scheme and credentials, both empty when absent;
\* the scheme is given character by character
Authorization(scheme, credentials) == [scheme |-> scheme, credentials |-> credentials]
NoAuthorization == Authorization(<<>>, <<>>)

\* "Bearer", "bearer", "BEARER" and "Basic"
Bearer == <<66, 101, 97, 114, 101, 114>>
bearer == <<98, 101, 97, 114, 101, 114>>
BEARER == <<66, 69, 65, 82, 69, 82>>
Basic == <<66, 97, 115, 105, 99>>

\* str.lower() of one character of a header value (code points 0..255): the
\* letters A-Z, and the capital letters of Latin-1 except the multiplication
\* sign between them, are 32 below their lower-case forms
LowerChar(c) ==
    IF c \in 65..90 \/ (c \in 192..222 /\ c # 215) THEN c + 32 ELSE c

\* str.lower()
Lower(scheme) == [i \in DOMAIN scheme |-> LowerChar(scheme[i])]

\* the status HTTPBearer raises with when it finds no bearer credentials:
\* 403 or 401, by the version of FastAPI installed
HTTPBearerErrorStatus == {401, 403}

Raised(status_code, detail) ==
    [passed |-> FALSE, status_code |-> status_code, detail |-> detail]

\* SecurityBearer() is constructed with the default of its auto_error
auto_error == TRUE

\* super().__call__(request), fastapi.security.HTTPBearer: the credentials of
\* a header whose scheme is "bearer" in any casing; for any other header the
\* HTTPException it raises with lib_status, or None without auto_error
HTTPBearer(auth, lib_status) ==
    IF auth.scheme = <<>> \/ auth.credentials = <<>>
    THEN IF auto_error
         THEN [raised |-> TRUE, error |-> Raised(lib_status, "Not authenticated")]
         ELSE [raised |-> FALSE, credentials |-> Nothing]
    ELSE IF Lower(auth.scheme) # bearer
    THEN IF auto_error
         THEN [raised |-> TRUE,
               error |-> Raised(lib_status, "Invalid authentication credentials")]
         ELSE [raised |-> FALSE, credentials |-> Nothing]
    ELSE [raised |-> FALSE, credentials |-> Some(auth)]

\* SecurityBearer.__call__ at clock t; lib_status is what HTTPBearer raises with
SecurityBearer(auth, t, lib_status) ==
    LET found == HTTPBearer(auth, lib_status)
    IN  IF found.raised THEN found.error
        ELSE IF found.credentials # Nothing
        THEN LET credentials == found.credentials[1]
             IN  IF ~(credentials.scheme = Bearer)
                 THEN Raised(403, "Invalid authentication scheme. Bearer token required.")
                 ELSE IF ~verify_jwt(credentials.credentials, t)
                 THEN Raised(403, "Invalid token or expired token.")
                 ELSE [passed |-> TRUE, status_code |-> 200, detail |-> ""]
        ELSE Raised(403, "Invalid authorization code.")

-----------------------------------------------------------------------------
(* The request path: logging_and_rate_limit_middleware, the route's *)
(* dependency, the route function *)

ProtectedRoutes == {"GET /admin/bins", "GET /admin/dashboard"}
DataRoute == "POST /data"
TokenRoute == "POST /auth/token"

NoBody == WasteBinData(None, <<0, 0, 0>>)

\* what a request is answered with; `data` is the mapping an admin route
\* returns (a reference), `status` and `alerts` the fields POST /data returns
Response(status_code, data, status, alerts) ==
    [status_code |-> status_code, data |-> data, status |-> status, alerts |-> alerts]

NoResponse == Response(0, None, None, <<>>)

\* a request as it reaches the middleware
Request(client, route, auth, body) ==
    [pc |-> "middleware", client |-> client, route |-> route, auth |-> auth,
     body |-> body, checked_at |-> 0 - 1, handler_ran |-> FALSE,
     response |-> NoResponse]

\* no request answered yet
NoRequest == [Request(None, None, NoAuthorization, NoBody) EXCEPT !.pc = "none"]

\* JSONResponse(status_code=429, ...)
RateLimited == Response(429, None, None, <<>>)

\* admin_get_bins / admin_get_dashboard: "data" / "bins_status" is
\* database.get_all_bins()
admin_get_bins == Response(200, get_all_bins, None, <<>>)

\* receive_iot_data after database.store_bin_data: binsMap is the store's
\* dict after the write
receive_iot_data(binsMap, bin_data) ==
    LET notifications == check_and_notify(bin_data)
        current_status == get_bin_status(binsMap, bin_data.bin_id)
    IN  IF current_status = Nothing
        THEN Response(500, None, None, <<>>)
        ELSE Response(200, None, current_status[1].status, notifications)

-----------------------------------------------------------------------------
(* Actions *)

Tick(max) ==
    /\ now < max
    /\ now' = now + 1
    /\ admitted' = [i \in DOMAIN admitted |->
                       SelectSeq(admitted[i], LAMBDA at : now' - at < window)]
    /\ UNCHANGED <<limit, window, requests, allowLog, denials, evalVars, storeVars,
                   gateVars, tokenVars>>

\* a count that stops at MaxDenials
Saturating(n) == IF n > MaxDenials THEN MaxDenials ELSE n

\* the denied calls of `identifier` since its last allowed call
Denied(denialMap, identifier) ==
    IF identifier \in DOMAIN denialMap THEN denialMap[identifier].pending ELSE 0

\* the limiter's variables after is_allowed(identifier) at the current clock
Limit(identifier) ==
    LET r == is_allowed(requests, identifier, limit, window, now)
    IN  /\ requests' = r.requests
        /\ allowLog' = [identifier |-> identifier, at |-> now,
                        before |-> Recorded(requests, identifier),
                        allowed |-> r.allowed]
        /\ admitted' = IF r.allowed
                       THEN [i \in DOMAIN admitted \cup {identifier} |->
                               IF i = identifier
                               THEN Append(Recorded(admitted, identifier), now)
                               ELSE admitted[i]]
                       ELSE admitted
        /\ UNCHANGED <<limit, window>>

IsAllowed(identifier) ==
    /\ Limit(identifier)
    /\ UNCHANGED <<denials, now, evalVars, storeVars, gateVars, tokenVars>>

\* the same call, with the denied calls counted
CountedCall(identifier) ==
    /\ Limit(identifier)
    /\ denials' = [i \in DOMAIN denials \cup {identifier} |->
                      IF i # identifier THEN denials[i]
                      ELSE IF allowLog'.allowed
                      THEN [pending |-> 0, before |-> Denied(denials, identifier)]
                      ELSE [pending |-> Saturating(Denied(denials, identifier) + 1),
                            before |-> 0]]
    /\ UNCHANGED <<now, evalVars, storeVars, gateVars, tokenVars>>

Evaluate ==
    /\ evaluated = NotEvaluated
    /\ evaluated' = [status |-> _calculate_bin_status(reading),
                     alerts |-> _generate_alerts(reading)]
    /\ UNCHANGED <<denials, now, limiterVars, reading, storeVars, gateVars, tokenVars>>

\* the store's variables after database.store_bin_data(data) at the current clock
Store(data) ==
    /\ bins' = store_bin_data(bins, data, now).bins
    /\ stored' = stored \cup {data.bin_id}
    /\ latest' = [b \in DOMAIN latest \cup {data.bin_id} |->
                     IF b = data.bin_id THEN data ELSE latest[b]]
    /\ getLog' = NoGet

StoreBinData(data) ==
    /\ Store(data)
    /\ UNCHANGED <<denials, now, limiterVars, evalVars, held, gateVars, tokenVars>>

\* GET /status/{bin_id}
GetBinStatus(bin_id) ==
    /\ getLog' = [bin_id |-> bin_id, response |-> get_bin_status_route(bins, bin_id)]
    /\ UNCHANGED <<denials, now, limiterVars, evalVars, gateVars, tokenVars,
                   bins, stored, latest, held>>

\* a caller takes database.get_all_bins() and keeps what it was given
GetAllBins ==
    /\ held = NotHeld
    /\ held' = [ref |-> get_all_bins, atCall |-> Deref(get_all_bins, bins)]
    /\ getLog' = NoGet
    /\ UNCHANGED <<denials, now, limiterVars, evalVars, gateVars, tokenVars,
                   bins, stored, latest>>

\* the caller drops the mapping it held
Release ==
    /\ held # NotHeld
    /\ held' = NotHeld
    /\ getLog' = NoGet
    /\ UNCHANGED <<denials, now, limiterVars, evalVars, gateVars, tokenVars,
                   bins, stored, latest>>

Middleware_auth_first(req, cap) ==
    IF req.route \in ProtectedRoutes /\ ~SecurityBearer(req.auth, now, 403).passed
    THEN /\ answered' = [req EXCEPT !.pc = "done", !.checked_at = now,
                                    !.response = Response(403, None, None, <<>>)]
         /\ UNCHANGED <<denials, now, limiterVars, evalVars, storeVars, tokenVars, inflight>>
    ELSE /\ Limit(req.client)
         /\ IF allowLog'.allowed
            THEN /\ BagCardinality(inflight) < cap
                 /\ inflight' = inflight (+) SetToBag({[req EXCEPT !.pc = "call_next"]})
                 /\ UNCHANGED answered
            ELSE /\ answered' = [req EXCEPT !.pc = "done", !.response = RateLimited]
                 /\ UNCHANGED inflight
         /\ UNCHANGED <<denials, now, evalVars, storeVars, tokenVars>>

\* a request enters logging_and_rate_limit_middleware: the rate check, then
\* either the 429 response or `await call_next(request)`
Middleware(req, cap) ==
    /\ Limit(req.client)
    /\ IF allowLog'.allowed
       THEN /\ BagCardinality(inflight) < cap
            /\ inflight' = inflight (+) SetToBag({[req EXCEPT !.pc = "call_next"]})
            /\ UNCHANGED answered
       ELSE /\ answered' = [req EXCEPT !.pc = "done", !.response = RateLimited]
            /\ UNCHANGED inflight
    /\ UNCHANGED <<denials, now, evalVars, storeVars, tokenVars>>

\* Depends(security) of a protected route: the request goes on to the route
\* function, or is answered with the HTTPException raised
Security(req) ==
    /\ req \in BagToSet(inflight)
    /\ req.pc = "call_next"
    /\ req.route \in ProtectedRoutes
    /\ \E lib_status \in HTTPBearerErrorStatus :
          LET r == SecurityBearer(req.auth, now, lib_status)
          IN  IF r.passed
              THEN /\ inflight' = (inflight (-) SetToBag({req})) (+) SetToBag({
                          [req EXCEPT !.pc = "endpoint", !.checked_at = now]})
                   /\ UNCHANGED answered
              ELSE /\ inflight' = inflight (-) SetToBag({req})
                   /\ answered' =
                          [req EXCEPT !.pc = "done", !.checked_at = now,
                                      !.response = Response(r.status_code, None,
                                                            None, <<>>)]
    /\ UNCHANGED <<denials, now, limiterVars, evalVars, storeVars, tokenVars>>

\* the route function of a protected route, and its response
AdminEndpoint(req) ==
    /\ req \in BagToSet(inflight)
    /\ req.pc = "endpoint"
    /\ req.route \in ProtectedRoutes
    /\ inflight' = inflight (-) SetToBag({req})
    /\ answered' = [req EXCEPT !.pc = "done", !.handler_ran = TRUE,
                               !.response = admin_get_bins]
    /\ UNCHANGED <<denials, now, limiterVars, evalVars, storeVars, tokenVars>>

\* POST /data: receive_iot_data, from the store to the response
DataEndpoint(req) ==
    /\ req \in BagToSet(inflight)
    /\ req.pc = "call_next"
    /\ req.route = DataRoute
    /\ Store(req.body)
    /\ inflight' = inflight (-) SetToBag({req})
    /\ answered' = [req EXCEPT !.pc = "done", !.handler_ran = TRUE,
                               !.response = receive_iot_data(bins', req.body)]
    /\ UNCHANGED <<denials, now, limiterVars, evalVars, held, tokenVars>>

\* a device posts `reading` to a service that has answered nothing yet
PostReading ==
    /\ answered = NoRequest
    /\ inflight = EmptyBag
    /\ Middleware(Request("ip1", DataRoute, NoAuthorization, reading), 1)

\* a client asks POST /auth/token for a token
RequestToken(client, cap) ==
    Middleware(Request(client, TokenRoute, NoAuthorization, NoBody), cap)

\* the route function of POST /auth/token; the client keeps the access_token
\* of the response
TokenEndpoint(req) ==
    /\ req \in BagToSet(inflight)
    /\ req.pc = "call_next"
    /\ req.route = TokenRoute
    /\ access_token' = create_token(now, utcoffset)
    /\ issueLog' = [op |-> "create_token", data |-> TestSubject,
                    expires_delta |-> Some(timedelta(ACCESS_TOKEN_EXPIRE_MINUTES)),
                    secret |-> SECRET_KEY, at |-> now, token |-> access_token']
    /\ inflight' = inflight (-) SetToBag({req})
    /\ answered' = [req EXCEPT !.pc = "done", !.handler_ran = TRUE,
                               !.response = Response(200, None, None, <<>>)]
    /\ UNCHANGED <<denials, now, limiterVars, evalVars, storeVars, utcoffset, decodeLog>>

\* a client calls a protected route with the token it was given
PresentToken(client, route, cap) ==
    /\ issueLog # NoIssue
    /\ Middleware(Request(client, route, Authorization(Bearer, access_token),
                          NoBody), cap)

\* a caller issues a token with create_access_token and keeps it
CreateAccessToken(data, expires_delta) ==
    /\ access_token' = create_access_token(data, expires_delta, now, utcoffset)
    /\ issueLog' = [op |-> "create_access_token", data |-> data,
                    expires_delta |-> expires_delta, secret |-> SECRET_KEY,
                    at |-> now, token |-> access_token']
    /\ decodeLog' = NoDecode
    /\ UNCHANGED <<denials, now, limiterVars, evalVars, storeVars, gateVars, utcoffset>>

\* a caller signs a payload with SimpleJWT.encode and keeps the token
Encode(payload, secret) ==
    /\ access_token' = encode(payload, secret)
    /\ issueLog' = [op |-> "encode", data |-> payload, expires_delta |-> Nothing,
                    secret |-> secret, at |-> now, token |-> access_token']
    /\ decodeLog' = NoDecode
    /\ UNCHANGED <<denials, now, limiterVars, evalVars, storeVars, gateVars, utcoffset>>

\* the holder sets one character of the signature segment of the token as it
\* was issued; `was` is the character the signature has there
Tamper(at, was, to) ==
    /\ issueLog # NoIssue
    /\ access_token = issueLog.token
    /\ Len(access_token) = 3
    /\ access_token' = TamperSignature(access_token, at, was, to)
    /\ decodeLog' = NoDecode
    /\ UNCHANGED <<denials, now, limiterVars, evalVars, storeVars, gateVars, utcoffset, issueLog>>

\* SimpleJWT.decode(token, secret) at the current clock
Decode(secret) ==
    /\ decodeLog' = [token |-> access_token, secret |-> secret, at |-> now,
                     result |-> decode(access_token, secret, now)]
    /\ UNCHANGED <<denials, now, limiterVars, evalVars, storeVars, gateVars,
                   utcoffset, access_token, issueLog>>

-----------------------------------------------------------------------------
(* Specifications *)

InitStoreVars ==
    /\ bins = <<>> /\ stored = {} /\ latest = <<>>
    /\ getLog = NoGet /\ held = NotHeld
    /\ inflight = EmptyBag
    /\ answered = NoRequest

\* no token issued or decoded yet
InitTokenVars ==
    /\ access_token = NoToken
    /\ issueLog = NoIssue
    /\ decodeLog = NoDecode

NoReading == [organic_level |-> 0, recyclable_level |-> 0, hazardous_level |-> 0]

\* the alert evaluator applied to every reading the validation lets through
InitEval ==
    /\ now = 0 /\ limit = 1 /\ window = 1
    /\ requests = <<>> /\ allowLog = NoCall /\ admitted = <<>> /\ denials = <<>>
    /\ reading \in [organic_level : Levels, recyclable_level : Levels,
                    hazardous_level : Levels]
    /\ evaluated = NotEvaluated
    /\ InitStoreVars
    /\ utcoffset = 0
    /\ InitTokenVars

NextEval == Evaluate

SpecEval == InitEval /\ [][NextEval]_vars

\* a fresh RateLimiter called with one (limit, window) while the clock runs
InitRate ==
    /\ now = 0
    /\ limit \in 0..MaxLimit
    /\ window \in 1..MaxWindow
    /\ requests = <<>>
    /\ allowLog = NoCall
    /\ admitted = <<>>
    /\ denials = <<>>
    /\ reading = NoReading
    /\ evaluated = NotEvaluated
    /\ InitStoreVars
    /\ utcoffset = 0
    /\ InitTokenVars

NextRate ==
    \/ Tick(MaxTime)
    \/ \E identifier \in Identifiers : IsAllowed(identifier)

SpecRate == InitRate /\ [][NextRate]_vars

\* one identifier calling a fresh RateLimiter whose limit is 1..MaxLimit
InitRecover ==
    /\ InitRate
    /\ limit >= 1

NextRecover ==
    \/ Tick(MaxTime)
    \/ \E identifier \in GateClients : CountedCall(identifier)

SpecRecover == InitRecover /\ [][NextRecover]_vars

\* a fresh WasteDatabase written and read while the clock runs
InitStore ==
    /\ now = 0 /\ limit = 1 /\ window = 1
    /\ requests = <<>> /\ allowLog = NoCall /\ admitted = <<>> /\ denials = <<>>
    /\ reading = NoReading
    /\ evaluated = NotEvaluated
    /\ InitStoreVars
    /\ utcoffset = 0
    /\ InitTokenVars

NextStore ==
    \/ Tick(MaxStoreTime)
    \/ \E data \in SampleReadings : StoreBinData(data)
    \/ \E bin_id \in BinIds : GetBinStatus(bin_id)
    \/ GetAllBins
    \/ Release

SpecStore == InitStore /\ [][NextStore]_vars

\* the tokens presented to the protected routes: one that expires at
\* TokenExp and one that never does, properly signed; then one without a
\* subject, one with a null subject, one signed with another secret, one
\* whose claims were replaced after signing, one cut to two segments and one
\* with a fourth segment
GoodClaims(exp) == [sub |-> "test_user", exp |-> exp]

GoodToken == encode(GoodClaims(TokenExp), SECRET_KEY)

Tokens ==
    {GoodToken,
     encode([sub |-> "test_user"], SECRET_KEY),
     encode([exp |-> TokenExp], SECRET_KEY),
     encode([sub |-> JsonNull, exp |-> TokenExp], SECRET_KEY),
     encode(GoodClaims(TokenExp), OtherSecret),
     <<GoodToken[1], B64Json(GoodClaims(TokenExp + 1)), GoodToken[3]>>,
     SubSeq(GoodToken, 1, 2),
     GoodToken \o <<RawSegment>>}

AuthHeaders ==
    {NoAuthorization}
    \cup {Authorization(Bearer, token) : token \in Tokens}
    \cup {Authorization(scheme, GoodToken) : scheme \in {BEARER, Basic}}

AdminRequests ==
    {Request(client, route, auth, NoBody) :
        client \in GateClients, route \in ProtectedRoutes, auth \in AuthHeaders}

DataRequests ==
    {Request(client, DataRoute, NoAuthorization, body) :
        client \in GateClients, body \in DataReadings}

\* the service from start-up.  The middleware calls is_allowed with its
\* defaults, RATE_LIMIT_REQUESTS = 100 per RATE_LIMIT_WINDOW = 3600 seconds;
\* here they are scaled down to 1..MaxGateLimit requests per window of
\* 1..MaxGateWindow clock units
InitGate ==
    /\ now = 0
    /\ limit \in 1..MaxGateLimit
    /\ window \in 1..MaxGateWindow
    /\ requests = <<>>
    /\ allowLog = NoCall
    /\ admitted = <<>>
    /\ denials = <<>>
    /\ reading = NoReading
    /\ evaluated = NotEvaluated
    /\ InitStoreVars
    /\ utcoffset = 0
    /\ InitTokenVars

\* the same, with the rate limit at one request per clock unit
InitAuth ==
    /\ InitGate
    /\ limit = 1
    /\ window = 1

\* clients calling the protected routes
NextAuth ==
    \/ Tick(MaxGateTime)
    \/ \E req \in AdminRequests : Middleware(req, MaxAuthInFlight)
    \/ \E req \in BagToSet(inflight) : Security(req)
    \/ \E req \in BagToSet(inflight) : AdminEndpoint(req)

SpecAuth == InitAuth /\ [][NextAuth]_vars

\* devices posting readings concurrently
NextData ==
    \/ Tick(MaxGateTime)
    \/ \E req \in DataRequests : Middleware(req, MaxInFlight)
    \/ \E req \in BagToSet(inflight) : DataEndpoint(req)

SpecData == InitGate /\ [][NextData]_vars

\* one reading posted to a fresh service, for every reading the validation
\* lets through
InitNotify ==
    /\ now = 0 /\ limit = 1 /\ window = 1
    /\ requests = <<>> /\ allowLog = NoCall /\ admitted = <<>> /\ denials = <<>>
    /\ reading \in [bin_id : {"BIN-001"}, organic_level : Levels,
                    recyclable_level : Levels, hazardous_level : Levels]
    /\ evaluated = NotEvaluated
    /\ InitStoreVars
    /\ utcoffset = 0
    /\ InitTokenVars

NextNotify ==
    \/ PostReading
    \/ \E req \in BagToSet(inflight) : DataEndpoint(req)

SpecNotify == InitNotify /\ [][NextNotify]_vars

\* the time zones a server runs in
UtcOffsets == (0 - MaxUtcOffset)..MaxUtcOffset

\* the claims tokens are issued for
ClaimSets == {TestSubject, [sub |-> "device-7", role |-> "admin"]}

\* the expires_delta arguments: None, and timedeltas from -1 clock unit up
Deltas == {Nothing} \cup {Some(d) : d \in (0 - 1)..MaxDelta}

\* the payloads signed directly: without an expiration, and with each one
EncodePayloads ==
    {TestSubject} \cup {[sub |-> "test_user", exp |-> e] : e \in 0..MaxTokenTime}

Secrets == {SECRET_KEY, OtherSecret}

\* the characters a signature character is set to: 'A', '_', '.' and U+00E9
FlipChars == {65, 95, Separator, 233}

FlipPositions == {1, SignatureChars}

\* the token codec on a server in any time zone
InitToken ==
    /\ now = 0 /\ limit = 1 /\ window = 1
    /\ requests = <<>> /\ allowLog = NoCall /\ admitted = <<>> /\ denials = <<>>
    /\ reading = NoReading
    /\ evaluated = NotEvaluated
    /\ InitStoreVars
    /\ utcoffset \in UtcOffsets
    /\ InitTokenVars

NextToken ==
    \/ Tick(MaxTokenTime)
    \/ \E data \in ClaimSets, expires_delta \in Deltas :
          CreateAccessToken(data, expires_delta)
    \/ \E payload \in EncodePayloads, secret \in Secrets : Encode(payload, secret)
    \/ \E at \in FlipPositions, to \in FlipChars :
          \E was \in SignatureAlphabet(at) : Tamper(at, was, to)
    \/ \E secret \in Secrets : Decode(secret)

SpecToken == InitToken /\ [][NextToken]_vars

\* the headers sent to the protected routes beside the reading posted: none,
\* a token that verifies until TokenExp, a token signed with another secret
GateHeaders ==
    {NoAuthorization, Authorization(Bearer, GoodToken),
     Authorization(Bearer, encode(GoodClaims(TokenExp), OtherSecret))}

GateRequests ==
    {Request(client, route, auth, NoBody) :
        client \in GateClients, route \in ProtectedRoutes, auth \in GateHeaders}
    \cup {Request(client, DataRoute, NoAuthorization,
                  WasteBinData("BIN-001", <<0, 80, 95>>)) : client \in GateClients}

\* the service from start-up, with the rate limit at MaxGateLimit requests per
\* clock unit
InitBusy ==
    /\ InitGate
    /\ limit = MaxGateLimit
    /\ window = 1

\* devices and administrators calling one service, one request at a time
NextGate ==
    \/ Tick(MaxGateTime)
    \/ \E req \in GateRequests : Middleware(req, MaxAuthInFlight)
    \/ \E req \in BagToSet(inflight) : Security(req)
    \/ \E req \in BagToSet(inflight) : AdminEndpoint(req)
    \/ \E req \in BagToSet(inflight) : DataEndpoint(req)

SpecGate == InitBusy /\ [][NextGate]_vars

\* the service on a server in any time zone, with the rate limit at one
\* request per clock unit: clients fetch a token and present it to the
\* protected routes
InitIssue ==
    /\ now = 0
    /\ limit = 1
    /\ window = 1
    /\ requests = <<>> /\ allowLog = NoCall /\ admitted = <<>> /\ denials = <<>>
    /\ reading = NoReading
    /\ evaluated = NotEvaluated
    /\ InitStoreVars
    /\ utcoffset \in UtcOffsets
    /\ InitTokenVars

NextIssue ==
    \/ Tick(MaxTokenTime)
    \/ \E client \in GateClients : RequestToken(client, MaxAuthInFlight)
    \/ \E req \in BagToSet(inflight) : TokenEndpoint(req)
    \/ \E client \in GateClients, route \in ProtectedRoutes :
          PresentToken(client, route, MaxAuthInFlight)
    \/ \E req \in BagToSet(inflight) : Security(req)
    \/ \E req \in BagToSet(inflight) : AdminEndpoint(req)

SpecIssue == InitIssue /\ [][NextIssue]_vars

-----------------------------------------------------------------------------
(* The rate limiter's claims, under SpecRate *)

\* the timestamps of `reqs` lying in the closed interval [a, a + w]
InInterval(reqs, a, w) == {i \in DOMAIN reqs : a <= reqs[i] /\ reqs[i] <= a + w}

\* C2: for every identifier, in every reachable state, no interval of length
\* `window` holds more than `limit` of the identifier's recorded timestamps.
C2_WindowNeverExceedsLimit ==
    \A identifier \in DOMAIN requests :
        \A a \in (0 - MaxWindow)..MaxTime :
            Cardinality(InInterval(requests[identifier], a, window)) <= limit

\* a full window that has turned a call down
C2_Witness ==
    /\ limit >= 2
    /\ allowLog.identifier \in DOMAIN requests
    /\ ~allowLog.allowed
    /\ Len(requests[allowLog.identifier]) = limit
    /\ \E i, j \in DOMAIN requests[allowLog.identifier] :
          requests[allowLog.identifier][i] # requests[allowLog.identifier][j]

\* the timestamps of `reqs` that the call at t leaves in place, oldest first
RECURSIVE Retained(_, _, _)
Retained(reqs, t, w) ==
    IF reqs = <<>> THEN <<>>
    ELSE IF t - Head(reqs) < w THEN <<Head(reqs)>> \o Retained(Tail(reqs), t, w)
    ELSE Retained(Tail(reqs), t, w)

\* C3: a call is allowed exactly when fewer than `limit` timestamps remain
\* after pruning, and then `now` is appended to them; a denied call leaves
\* the pruned list as it is and records nothing new.
C3_AllowedIffUnderLimit ==
    allowLog.identifier # None =>
        LET remaining == Retained(allowLog.before, allowLog.at, window)
            after == requests[allowLog.identifier]
        IN  /\ allowLog.allowed <=> (Len(remaining) < limit)
            /\ allowLog.allowed => after = Append(remaining, allowLog.at)
            /\ ~allowLog.allowed =>
                  /\ after = remaining
                  /\ Len(after) <= Len(allowLog.before)

\* a denied call on a window that an earlier call had pruned and refilled
C3_Witness ==
    /\ allowLog.identifier # None
    /\ ~allowLog.allowed
    /\ limit >= 1
    /\ allowLog.before # <<>>
    /\ allowLog.at >= window
    /\ requests[allowLog.identifier] = allowLog.before

-----------------------------------------------------------------------------
(* The alert evaluator's claims, under SpecEval *)

\* the largest of the three levels of a reading
TopLevel(data) ==
    CHOOSE m \in {data.organic_level, data.recyclable_level, data.hazardous_level} :
        /\ m >= data.organic_level
        /\ m >= data.recyclable_level
        /\ m >= data.hazardous_level

\* C9: classify is CRITICAL when the largest level is >= 90, HIGH when it is
\* >= 80 and < 90, MEDIUM when it is >= 60 and < 80, LOW otherwise.
C9_ClassifyBands ==
    evaluated # NotEvaluated =>
        LET m == TopLevel(reading)
        IN  /\ evaluated.status = "CRITICAL" <=> m >= 90
            /\ evaluated.status = "HIGH" <=> (m >= 80 /\ m < 90)
            /\ evaluated.status = "MEDIUM" <=> (m >= 60 /\ m < 80)
            /\ evaluated.status = "LOW" <=> m < 60

\* a reading whose largest level sits on the boundary 80
C9_Witness ==
    /\ evaluated.status = "HIGH"
    /\ TopLevel(reading) = 80
    /\ reading.recyclable_level = 79

CategoryOrder == <<"Organic", "Recyclable", "Hazardous">>

LevelOf(data, category) ==
    CASE category = "Organic" -> data.organic_level
      [] category = "Recyclable" -> data.recyclable_level
      [] category = "Hazardous" -> data.hazardous_level

Rank(category) == CHOOSE k \in DOMAIN CategoryOrder : CategoryOrder[k] = category

\* C10: alerts holds exactly one message for each category whose level is
\* >= 80, none for the others, in the order organic, recyclable, hazardous.
C10_AlertsPerCategory ==
    evaluated # NotEvaluated =>
        LET alerts == evaluated.alerts
        IN  /\ \A k \in DOMAIN CategoryOrder :
                  Cardinality({i \in DOMAIN alerts :
                                  alerts[i].category = CategoryOrder[k]})
                    = IF LevelOf(reading, CategoryOrder[k]) >= 80 THEN 1 ELSE 0
            /\ \A i, j \in DOMAIN alerts :
                  i < j => Rank(alerts[i].category) < Rank(alerts[j].category)

\* organic exactly at 80 and hazardous above it, recyclable just below
C10_Witness ==
    /\ evaluated # NotEvaluated
    /\ reading.organic_level = 80
    /\ reading.recyclable_level = 79
    /\ reading.hazardous_level = 95
    /\ Len(evaluated.alerts) = 2

-----------------------------------------------------------------------------
(* The bin store's claims, under SpecStore *)

\* `status` is the band of the largest level of `data`
IsBandOf(status, data) ==
    LET m == TopLevel(data)
    IN  status = (IF m >= 90 THEN "CRITICAL"
                  ELSE IF m >= 80 THEN "HIGH"
                  ELSE IF m >= 60 THEN "MEDIUM"
                  ELSE "LOW")

\* `alerts` names each category of `data` at or above 80 once, with that
\* level, in category order, and no other
AreAlertsOf(alerts, data) ==
    /\ \A k \in DOMAIN CategoryOrder :
          Cardinality({i \in DOMAIN alerts : alerts[i].category = CategoryOrder[k]})
            = IF LevelOf(data, CategoryOrder[k]) >= 80 THEN 1 ELSE 0
    /\ \A i \in DOMAIN alerts :
          alerts[i].level = LevelOf(data, alerts[i].category)
    /\ \A i, j \in DOMAIN alerts :
          i < j => Rank(alerts[i].category) < Rank(alerts[j].category)

\* C5: in every reachable state each stored record's status is classify of
\* that record's own three levels and its alerts are alerts of those levels.
C5_StatusFollowsLevels ==
    \A b \in DOMAIN bins :
        /\ IsBandOf(bins[b].status, bins[b])
        /\ AreAlertsOf(bins[b].alerts, bins[b])

\* a record that was overwritten by a reading of another band and other alerts
C5_Witness ==
    \E b \in DOMAIN bins :
        /\ bins[b].last_updated > 0
        /\ bins[b].status = "LOW"
        /\ bins[b].alerts = <<>>
        /\ b \in DOMAIN held.atCall
        /\ held.atCall[b].status = "CRITICAL"
        /\ held.atCall[b].last_updated < bins[b].last_updated

\* C6: the size of getAll() is the number of distinct bin ids ever stored,
\* and every id ever stored still has its record.
C6_OneRecordPerId ==
    LET all == Deref(get_all_bins, bins)
    IN  /\ Cardinality(DOMAIN all) = Cardinality(stored)
        /\ stored \subseteq DOMAIN all

\* both ids stored, one of them twice
C6_Witness ==
    /\ stored = BinIds
    /\ Cardinality(DOMAIN bins) = 2
    /\ \E b \in DOMAIN bins : \E a \in DOMAIN held.atCall :
          /\ a = b
          /\ held.atCall[a].last_updated < bins[b].last_updated

\* C7: get(id) is NotFound exactly when nothing was ever stored for id;
\* otherwise it returns the record of the most recent store for id.
C7_ReadAfterWrite ==
    getLog.bin_id # None =>
        /\ getLog.response = NotFound <=> getLog.bin_id \notin stored
        /\ getLog.bin_id \in stored =>
              /\ getLog.response.status_code = 200
              /\ Len(getLog.response.body) = 1
              /\ LET record == getLog.response.body[1]
                     data == latest[getLog.bin_id]
                 IN  /\ record.bin_id = data.bin_id
                     /\ record.organic_level = data.organic_level
                     /\ record.recyclable_level = data.recyclable_level
                     /\ record.hazardous_level = data.hazardous_level
                     /\ IsBandOf(record.status, data)
                     /\ AreAlertsOf(record.alerts, data)

\* a get of an id stored twice, with a later store for the other id
C7_Witness ==
    /\ getLog.bin_id \in stored
    /\ getLog.response.status_code = 200
    /\ getLog.bin_id \in DOMAIN held.atCall
    /\ held.atCall[getLog.bin_id] # bins[getLog.bin_id]
    /\ \E other \in DOMAIN bins :
          /\ other # getLog.bin_id
          /\ bins[other].last_updated > bins[getLog.bin_id].last_updated

\* C8: the mapping a caller obtained from getAll() stays as it was when the
\* call returned, whatever is stored afterwards.
C8_GetAllIsSnapshot ==
    held # NotHeld => Deref(held.ref, bins) = held.atCall

-----------------------------------------------------------------------------
(* The protected routes' claim, under SpecAuth *)

\* `token` has three segments, its third is the signature of the first two
\* under the configured secret, its claims name a subject, and their
\* expiration, if any, has not passed at time t
TokenVerifies(token, t) ==
    /\ Len(token) = 3
    /\ token[3] = B64(Hmac(SECRET_KEY, <<token[1], token[2]>>))
    /\ DOMAIN token[2] = {"b64json"}
    /\ "sub" \in DOMAIN token[2].b64json
    /\ token[2].b64json.sub # JsonNull
    /\ "exp" \in DOMAIN token[2].b64json => ~(token[2].b64json.exp < t)

\* C1: a protected route reaches its handler, and answers with data, only
\* for a request whose Bearer token verified under the configured secret
\* when the dependency checked it; no other request gets that far.
C1_ProtectedNeedsValidToken ==
    \A req \in BagToSet(inflight) \cup {answered} :
        req.route \in ProtectedRoutes =>
            /\ (req.pc = "endpoint" \/ req.handler_ran
                  \/ req.response.status_code = 200 \/ req.response.data # None)
               => /\ req.auth.scheme = Bearer
                  /\ TokenVerifies(req.auth.credentials, req.checked_at)
            /\ req.response.data # None => req.handler_ran

\* a request answered with the bins after an earlier one was turned down
C1_Witness ==
    /\ answered.route \in ProtectedRoutes
    /\ answered.handler_ran
    /\ answered.response.status_code = 200
    /\ answered.response.data = BinsRef
    /\ answered.auth.credentials = GoodToken
    /\ answered.checked_at = 0
    /\ ~allowLog.allowed

-----------------------------------------------------------------------------
(* The concurrency claim, under SpecData.  Handlers are coroutines on one   *)
(* event loop: a request gives way to another only where it awaits, which   *)
(* is_allowed and store_bin_data never do.                                  *)

\* C4: however the requests in flight interleave, an identifier is never
\* admitted more than `limit` times within a window, and every stored record
\* is wholly the record of one store call: the last one for its bin id.
C4_OperationsAtomic ==
    /\ \A identifier \in DOMAIN admitted : Len(admitted[identifier]) <= limit
    /\ \A b \in DOMAIN bins :
          /\ bins[b].bin_id = latest[b].bin_id
          /\ bins[b].organic_level = latest[b].organic_level
          /\ bins[b].recyclable_level = latest[b].recyclable_level
          /\ bins[b].hazardous_level = latest[b].hazardous_level
          /\ IsBandOf(bins[b].status, latest[b])
          /\ AreAlertsOf(bins[b].alerts, latest[b])

\* two requests of one client for one bin admitted together; the one that
\* stored first had arrived second, the other is still to store; the window
\* is full and has turned a third call down
C4_Witness ==
    \E r2 \in BagToSet(inflight) :
        /\ answered.pc = "done" /\ answered.handler_ran
        /\ r2.pc = "call_next"
        /\ answered.client = r2.client
        /\ answered.body.bin_id = r2.body.bin_id
        /\ answered.body # r2.body
        /\ limit = 2
        /\ Len(admitted[r2.client]) = limit
        /\ ~allowLog.allowed /\ allowLog.identifier = r2.client
        /\ bins[r2.body.bin_id].organic_level = answered.body.organic_level

-----------------------------------------------------------------------------
(* The notifications' claim, under SpecNotify *)

\* the categories named by a sequence of messages
Categories(messages) == {messages[i].category : i \in DOMAIN messages}

\* C11: notify returns exactly one message per category whose level is
\* strictly greater than 80, in the order organic, recyclable, hazardous; a
\* category at exactly 80 is in the stored alerts of the record and not in
\* the notifications; the notified categories are among the alerted ones.
C11_NotifyAboveAlertsFrom ==
    (answered.route = DataRoute /\ answered.handler_ran) =>
        LET data == answered.body
            notifications == answered.response.alerts
            record == bins[data.bin_id]
        IN  /\ \A k \in DOMAIN CategoryOrder :
                  Cardinality({i \in DOMAIN notifications :
                                  notifications[i].category = CategoryOrder[k]})
                    = IF LevelOf(data, CategoryOrder[k]) > 80 THEN 1 ELSE 0
            /\ \A i, j \in DOMAIN notifications :
                  i < j => Rank(notifications[i].category)
                             < Rank(notifications[j].category)
            /\ \A k \in DOMAIN CategoryOrder :
                  LevelOf(data, CategoryOrder[k]) = 80 =>
                      /\ CategoryOrder[k] \in Categories(record.alerts)
                      /\ CategoryOrder[k] \notin Categories(notifications)
            /\ Categories(notifications) \subseteq Categories(record.alerts)

\* organic exactly at 80, recyclable just above, hazardous just below: two
\* stored alerts and one notification
C11_Witness ==
    /\ answered.route = DataRoute /\ answered.handler_ran
    /\ answered.body.organic_level = 80
    /\ answered.body.recyclable_level = 81
    /\ answered.body.hazardous_level = 79
    /\ Len(bins[answered.body.bin_id].alerts) = 2
    /\ Len(answered.response.alerts) = 1
    /\ answered.response.alerts[1].category = "Recyclable"

-----------------------------------------------------------------------------
(* The token codec's claims, under SpecToken *)

\* `tok` has three segments, claims that load, and the signature of its
\* first two segments under `secret`
WellSigned(tok, secret) ==
    /\ Len(tok) = 3
    /\ DOMAIN tok[2] = {"b64json"}
    /\ tok[3] = B64(Hmac(secret, <<tok[1], tok[2]>>))

\* C12: verify of a correctly signed three-segment token fails with Expired
\* whenever its claims hold an expiration with exp <= now (exp == now
\* included), and succeeds only when exp > now or there is no expiration.
C12_ExpiredUnlessInFuture ==
    WellSigned(decodeLog.token, decodeLog.secret) =>
        LET claims == decodeLog.token[2].b64json
            result == decodeLog.result
        IN  /\ ("exp" \in DOMAIN claims /\ claims.exp <= decodeLog.at)
                   => result = Failed("Token has expired")
            /\ result.ok => ("exp" \notin DOMAIN claims \/ claims.exp > decodeLog.at)

\* C13: a token just issued with a positive ttl verifies under the secret it
\* was issued with and returns the issued claims plus an expiration claim;
\* under a different secret it fails.
C13_RoundTrip ==
    ( /\ issueLog.op = "create_access_token"
      /\ Truthy(issueLog.expires_delta) /\ issueLog.expires_delta[1] > 0
      /\ decodeLog.secret # None
      /\ decodeLog.token = issueLog.token
      /\ decodeLog.at = issueLog.at ) =>
        LET result == decodeLog.result
            data == issueLog.data
        IN  IF decodeLog.secret = issueLog.secret
            THEN /\ result.ok
                 /\ DOMAIN result.payload = DOMAIN data \cup {"exp"}
                 /\ \A k \in DOMAIN data : result.payload[k] = data[k]
            ELSE ~result.ok

\* C14: a token whose signature segment was changed in one character, to
\* any other character, fails with SignatureMismatch, whether or not it has
\* also expired: the signature is compared before the expiration is looked at.
C14_TamperedIsSignatureMismatch ==
    ( /\ issueLog # NoIssue
      /\ decodeLog.secret # None
      /\ Len(decodeLog.token) = 3
      /\ decodeLog.token[1] = issueLog.token[1]
      /\ decodeLog.token[2] = issueLog.token[2]
      /\ decodeLog.token[3] # issueLog.token[3] ) =>
        decodeLog.result = Failed("Invalid signature")

-----------------------------------------------------------------------------
(* The issued token's claim, under SpecIssue *)

\* the requests being served and the one answered last
Served == BagToSet(inflight) \cup {answered}

\* C15: a token issued by POST /auth/token carries the test subject and an
\* expiration exactly 60 minutes after its issue; a protected route accepts
\* it whenever it is verified less than 60 minutes after the issue and
\* rejects it whenever it is verified more than 60 minutes after, whatever
\* the server's offset from UTC.
C15_SixtyMinutesFromIssue ==
    issueLog.op = "create_token" =>
        LET claims == issueLog.token[2].b64json
            ttl == timedelta(60)
        IN  /\ claims.sub = "test_user"
            /\ claims.exp = issueLog.at + ttl
            /\ \A req \in Served :
                  ( /\ req.route \in ProtectedRoutes
                    /\ req.checked_at >= 0
                    /\ req.auth = Authorization(Bearer, issueLog.token) ) =>
                      /\ req.checked_at - issueLog.at < ttl
                            => (req.pc = "endpoint" \/ req.handler_ran)
                      /\ req.checked_at - issueLog.at > ttl
                            => (req.pc = "done" /\ ~req.handler_ran
                                  /\ req.response.status_code = 403)

-----------------------------------------------------------------------------
(* The gate's outcomes, under SpecAuth *)

\* C16: a request the gate turns away from a protected route fails with
\* Unauthenticated (401) when it has no Authorization header or a scheme
\* other than Bearer, and with Forbidden (403) when it carries a Bearer
\* credential whose token does not verify, whatever the reason.
C16_UnauthenticatedOrForbidden ==
    ( /\ answered.route \in ProtectedRoutes
      /\ answered.checked_at >= 0
      /\ ~answered.handler_ran ) =>
        /\ answered.auth.scheme # Bearer
              => answered.response.status_code = 401
        /\ (answered.auth.scheme = Bearer /\ answered.auth.credentials # <<>>)
              => answered.response.status_code = 403

-----------------------------------------------------------------------------
(* The order of the checks, under SpecGate *)

\* the requests that `after` holds more often than `before`
Entered(before, after) ==
    {req \in BagToSet(after) : CopiesIn(req, after) > CopiesIn(req, before)}

\* C17: the rate check comes first for every request.  A request the limiter
\* denies is answered RateLimited with no token verified, no handler run and
\* the bin store as it was; a request goes on to the dependency or the
\* handler only by an allowed call that records `now` in its client's
\* window, so a protected request with an invalid token uses a slot too; and
\* a request is verified or handled only after it went through that check.
C17_RateLimitFirst ==
    [][ /\ answered'.response = RateLimited
             => (answered'.checked_at < 0 /\ ~answered'.handler_ran)
        /\ (answered' # answered /\ answered'.response = RateLimited)
             => (bins' = bins /\ stored' = stored /\ inflight' = inflight)
        /\ \A req \in Entered(inflight, inflight') :
             req.pc = "call_next" =>
                /\ allowLog'.allowed
                /\ allowLog'.identifier = req.client
                /\ allowLog'.at = now
                /\ requests'[req.client]
                     = Append(Retained(Recorded(requests, req.client), now, window), now)
        /\ (answered' # answered /\ answered'.response # RateLimited)
             => \E req \in BagToSet(inflight) :
                    /\ req.pc \in {"call_next", "endpoint"}
                    /\ req.client = answered'.client
                    /\ req.route = answered'.route
                    /\ req.auth = answered'.auth
                    /\ req.body = answered'.body
      ]_vars

\* with two requests allowed per window: a reading stored, then a protected
\* request with a badly signed token answered 403 after it filled the
\* window, so that a third request was denied
C17_Witness ==
    /\ limit = 2
    /\ bins # <<>>
    /\ answered.route \in ProtectedRoutes
    /\ answered.response.status_code = 403
    /\ answered.auth = Authorization(Bearer, encode(GoodClaims(TokenExp), OtherSecret))
    /\ answered.client \in DOMAIN requests
    /\ Len(requests[answered.client]) = 2
    /\ requests[answered.client][2] = answered.checked_at
    /\ ~allowLog.allowed
    /\ allowLog.identifier = answered.client
    /\ allowLog.at = answered.checked_at

-----------------------------------------------------------------------------
(* The limiter's recovery, under SpecRecover *)

\* C18: with limit 3, the first 3 calls of an identifier made at one clock
\* reading are allowed and a 4th at the same reading is denied; and a call
\* made more than `window` after the identifier's oldest recorded timestamp
\* is allowed, however many calls were denied before it.
C18_RecoversAfterWindow ==
    allowLog.identifier # None =>
        LET before == allowLog.before
            sameSecond == \A i \in DOMAIN before : before[i] = allowLog.at
        IN  /\ (sameSecond /\ Len(before) < limit) => allowLog.allowed
            /\ (sameSecond /\ Len(before) >= limit) => ~allowLog.allowed
            /\ (before # <<>> /\ allowLog.at - before[1] > window)
                  => allowLog.allowed

\* limit 3: three calls recorded, two more denied, and after more than a
\* window since the oldest of the three the next call is allowed
C18_Witness ==
    /\ limit = 3
    /\ window >= 2
    /\ allowLog.identifier \in DOMAIN denials
    /\ allowLog.allowed
    /\ Len(allowLog.before) = 3
    /\ allowLog.before[1] = allowLog.before[3]
    /\ allowLog.at - allowLog.before[1] > window
    /\ denials[allowLog.identifier].before >= 2

-----------------------------------------------------------------------------
(* The classifier's order, under SpecEval *)

\* the place of a status band in LOW < MEDIUM < HIGH < CRITICAL
BandRank(status) ==
    CASE status = "LOW" -> 0
      [] status = "MEDIUM" -> 1
      [] status = "HIGH" -> 2
      [] status = "CRITICAL" -> 3

\* `data` with the level of one category raised to `level`
RaisedTo(data, category, level) ==
    CASE category = "Organic" -> [data EXCEPT !.organic_level = level]
      [] category = "Recyclable" -> [data EXCEPT !.recyclable_level = level]
      [] category = "Hazardous" -> [data EXCEPT !.hazardous_level = level]

\* C19: for all levels in 0..100, raising one of the three levels with the
\* other two fixed never lowers the band in LOW < MEDIUM < HIGH < CRITICAL.
C19_ClassifyMonotonic ==
    evaluated # NotEvaluated =>
        \A k \in DOMAIN CategoryOrder :
            \A level \in (LevelOf(reading, CategoryOrder[k]) + 1)..MaxLevel :
                BandRank(_calculate_bin_status(RaisedTo(reading, CategoryOrder[k], level)))
                    >= BandRank(evaluated.status)

\* a reading one percent of organic below the HIGH band, the other levels
\* lower: the raise takes it from MEDIUM to HIGH
C19_Witness ==
    /\ evaluated.status = "MEDIUM"
    /\ reading.organic_level = 79
    /\ reading.recyclable_level = 60
    /\ reading.hazardous_level = 0
    /\ _calculate_bin_status(RaisedTo(reading, "Organic", 80)) = "HIGH"

-----------------------------------------------------------------------------
(* The pruning boundary, under SpecRate *)

\* the timestamps of `reqs` that are not older than t - w, oldest first
NotOlder(reqs, t, w) == SelectSeq(reqs, LAMBDA req_time : ~(req_time < t - w))

\* C20: each call removes exactly the recorded timestamps older than
\* now - window (timestamp < now - window); one whose age equals window is
\* retained and counts against the limit on that call.
C20_PrunesOlderThanWindow ==
    allowLog.identifier # None =>
        LET expected == NotOlder(allowLog.before, allowLog.at, window)
            after == requests[allowLog.identifier]
            remaining == IF allowLog.allowed
                         THEN SubSeq(after, 1, Len(after) - 1)
                         ELSE after
        IN  /\ remaining = expected
            /\ allowLog.allowed <=> Len(expected) < limit

-----------------------------------------------------------------------------
(* The identifiers' independence, under SpecRate *)

\* C21: a call for one identifier, allowed or denied, leaves the recorded
\* timestamps of every other identifier as they were: an identifier's list
\* changes only in a call for that identifier, and the result of a call
\* follows from the called identifier's own list alone.
C21_IdentifiersIndependent ==
    [][ /\ \A b \in DOMAIN requests :
              /\ b \in DOMAIN requests'
              /\ requests'[b] # requests[b]
                    => (allowLog'.identifier = b /\ allowLog'.at = now /\ now' = now)
        /\ now' = now
              => ( allowLog'.allowed
                     <=> Len(Retained(Recorded(requests, allowLog'.identifier),
                                      now, window)) < limit )
      ]_vars

\* a call for ip1 denied on its full window while ip2 still holds a
\* timestamp a whole window old, which a call for ip2 would have dropped
C21_Witness ==
    /\ limit >= 2
    /\ allowLog.identifier = "ip1"
    /\ ~allowLog.allowed
    /\ allowLog.at = now
    /\ "ip2" \in DOMAIN requests
    /\ requests["ip2"] # <<>>
    /\ now - requests["ip2"][1] >= window
    /\ Len(requests["ip1"]) = limit

====
